---- MODULE Spec2Model ----
(***************************************************************************)
(* Model of slack-analyzer.js: a one-shot pipeline                         *)
(*   token check -> parse datetime -> resolve channel -> list members ->   *)
(*   page channel history (+ thread replies) -> format -> completion call. *)
(* Every `await` on a remote call is two steps: the request being issued   *)
(* and the response (or error) being delivered.                            *)
(*                                                                         *)
(* Representation choices                                                  *)
(*  - JS strings that the code inspects character by character (token,     *)
(*    channel input) are sequences of one-character strings.               *)
(*  - A Slack "ts" ("<seconds>.<microseconds>") is a record [sec, usec].   *)
(*  - undefined / null / '' (all falsy in JS) are "" for strings, 0 for    *)
(*    cursors and NoTs for timestamps.                                     *)
(*  - moment's 'YYYY-MM-DD HH:mm:ss' rendering of an instant is            *)
(*    represented by the whole second it denotes.                          *)
(***************************************************************************)
EXTENDS Integers, Sequences, FiniteSets

\* ------------------------------------------------------------------ bounds
MaxPages == 2

MaxPageLen == 2

\* ------------------------------------------------------- small JS helpers
Falsy(s) == s = ""

\* a || b || c on strings
Or3(a, b, c) == IF ~Falsy(a) THEN a ELSE IF ~Falsy(b) THEN b ELSE c

Or2(a, b) == IF ~Falsy(a) THEN a ELSE b

\* String.prototype.startsWith
StartsWith(s, p) == Len(s) >= Len(p) /\ SubSeq(s, 1, Len(p)) = p

UpperOrDigit == {"A", "B", "C", "G", "Z", "0", "1", "9"}

\* ------------------------------------------------------------ CLI inputs
BotPrefix == <<"x", "o", "x", "b", "-">>

TokenInputs ==
  { <<"x", "o", "x", "b", "-", "1">>,
    <<"x", "o", "x", "p", "-", "1">>,
    <<"x", "o", "x", "b">>,
    <<"a", "b", "c", "d", "e", "f">> }

\* [opt |-> --openai-key, env |-> OPENAI_API_KEY]
KeyInputs ==
  { [opt |-> "sk", env |-> ""], [opt |-> "", env |-> "sk"], [opt |-> "", env |-> ""] }

\* the wall clock read by moment(), in seconds
Now == 1000000

Invalid == [valid |-> FALSE, unix |-> 0]

DigitWords == {"1", "2"}

NumVal(w) == IF w = "1" THEN 1 ELSE 2

\* the /i flag and moment's unit normalisation both fold case
LowerWord(w) ==
  CASE w = "DAYS" -> "days"
    [] w = "Hour" -> "hour"
    [] OTHER -> w

UnitWords == {"day", "days", "week", "weeks", "hour", "hours", "minute", "minutes"}

UnitSeconds(u) ==
  CASE u \in {"minute", "minutes"} -> 60
    [] u \in {"hour", "hours"} -> 3600
    [] u \in {"day", "days"} -> 86400
    [] u \in {"week", "weeks"} -> 604800

\* strings moment(datetimeInput) parses to a valid date, with their unix time
AbsoluteDates == [w \in {"1970-01-10T00:00:00Z"} |-> 777600]

\* positions where /(\d+)\s+(unit)\s+ago/i matches (the pattern is unanchored)
RelativeMatches(input) ==
  { i \in 1..(Len(input) - 2) :
      /\ input[i] \in DigitWords
      /\ LowerWord(input[i + 1]) \in UnitWords
      /\ LowerWord(input[i + 2]) = "ago" }

parseDateTime(datetimeInput) ==
  IF RelativeMatches(datetimeInput) # {}
  THEN LET i == CHOOSE k \in RelativeMatches(datetimeInput) :
                  \A j \in RelativeMatches(datetimeInput) : k <= j
       IN [valid |-> TRUE,
           unix |-> Now - NumVal(datetimeInput[i]) * UnitSeconds(LowerWord(datetimeInput[i + 1]))]
  ELSE IF Len(datetimeInput) = 1 /\ datetimeInput[1] \in DOMAIN AbsoluteDates
       THEN [valid |-> TRUE, unix |-> AbsoluteDates[datetimeInput[1]]]
       ELSE Invalid

\* datetime inputs, as sequences of whitespace-separated words
DatetimeInputs ==
  { <<"1", "hour", "ago">>,
    <<"about", "2", "DAYS", "ago">>,
    <<"1970-01-10T00:00:00Z">>,
    <<"days", "ago">>,
    <<"yesterday-ish">> }

ChannelInputs ==
  { <<"C", "0", "1">>,
    <<"#", "g", "e", "n">>,
    <<"g", "e", "n">>,
    <<"r", "a", "n">>,
    <<"#", "#", "g", "e", "n">>,
    <<"C">>,
    <<"x", "C", "0", "1">> }

\* --------------------------------------------------------- chat backend
\* conversations.list: the channel listing, one page per request
ChannelPages ==
  << << [name |-> <<"g", "e", "n">>, id |-> <<"C", "0", "1">>] >>,
     << [name |-> <<"r", "a", "n">>, id |-> <<"C", "0", "2">>] >> >>

\* users.list: the member listing, one page per request
MemberPages ==
  << << [id |-> "U1", real_name |-> "Alice", name |-> "alice", display_name |-> ""] >>,
     << [id |-> "U2", real_name |-> "", name |-> "bob", display_name |-> "Bobby"],
        [id |-> "U3", real_name |-> "", name |-> "", display_name |-> ""] >> >>

NoTs == [sec |-> -1, usec |-> -1]

Ts(s, u) == [sec |-> s, usec |-> u]

\* a is a later instant than b
TsLater(a, b) == a.sec > b.sec \/ (a.sec = b.sec /\ a.usec > b.usec)

\* raw message records of the channel
M1 == [ts |-> Ts(Now - 7200, 100), user |-> "U1", text |-> "m1", type |-> "message",
       thread_ts |-> Ts(Now - 7200, 100)]

M2 == [ts |-> Ts(Now - 100, 100), user |-> "U2", text |-> "m2", type |-> "",
       thread_ts |-> NoTs]

M3 == [ts |-> Ts(Now - 100, 200), user |-> "", text |-> "m3", type |-> "message",
       thread_ts |-> Ts(Now - 100, 200)]

M4 == [ts |-> Ts(Now - 60, 0), user |-> "U9", text |-> "m4", type |-> "message",
       thread_ts |-> Ts(Now - 7200, 100)]

R1 == [ts |-> Ts(Now - 30, 0), user |-> "U2", text |-> "r1", type |-> "message",
       thread_ts |-> Ts(Now - 7200, 100)]

R3 == [ts |-> Ts(Now - 90, 0), user |-> "U7", text |-> "r3", type |-> "",
       thread_ts |-> Ts(Now - 100, 200)]

\* records conversations.history can return (top-level messages and
\* thread replies that were also sent to the channel)
HistoryUniverse == {M1, M2, M3, M4}

AllRecords == {M1, M2, M3, M4, R1, R3}

\* conversations.replies: the thread of a root ts, root echoed first
ThreadOf(ts) ==
  IF ts = M1.ts THEN <<M1, M4, R1>>
  ELSE IF ts = M3.ts THEN <<M3, R3>>
  ELSE << >>

\* ------------------------------------------------------- pure functions
\* /^C[A-Z0-9]+$/
IsChannelId(s) ==
  /\ Len(s) >= 2
  /\ s[1] = "C"
  /\ \A i \in 2..Len(s) : s[i] \in UpperOrDigit

\* channelInput.replace(/^#/, '')
StripHash(s) == IF Len(s) > 0 /\ s[1] = "#" THEN Tail(s) ELSE s

\* response.channels.find(ch => ch.name === channelName): index of the
\* first match, 0 when there is none
FindChannel(channels, channelName) ==
  LET hits == { i \in 1..Len(channels) : channels[i].name = channelName }
  IN IF hits = {} THEN 0 ELSE CHOOSE i \in hits : \A j \in hits : i <= j

EmptyMap == [x \in {} |-> ""]

MapSet(m, k, v) == [x \in (DOMAIN m) \cup {k} |-> IF x = k THEN v ELSE m[x]]

\* user.real_name || user.name || user.profile?.display_name || 'Unknown User'
DisplayName(user) ==
  Or2(Or3(user.real_name, user.name, user.display_name), "Unknown User")

RECURSIVE AddMembers(_, _)
\* response.members.forEach(user => userMap.set(...))
AddMembers(m, members) ==
  IF members = << >> THEN m
  ELSE AddMembers(MapSet(m, Head(members).id, DisplayName(Head(members))), Tail(members))

\* userMap.get(x.user) || x.user || 'Unknown User'
ResolveUser(m, user) ==
  Or3(IF user \in DOMAIN m THEN m[user] ELSE "", user, "Unknown User")

\* moment.unix(ts).format('YYYY-MM-DD HH:mm:ss'): the sub-second part is dropped
FormatTs(ts) == ts.sec

\* new Date(timestamp), in milliseconds
DateMs(timestamp) == timestamp * 1000

FormatReply(m, reply) ==
  [timestamp |-> FormatTs(reply.ts),
   username |-> ResolveUser(m, reply.user),
   text |-> reply.text,
   type |-> Or2(reply.type, "message")]

RECURSIVE MapReplies(_, _)
MapReplies(m, replies) ==
  IF replies = << >> THEN << >>
  ELSE <<FormatReply(m, Head(replies))>> \o MapReplies(m, Tail(replies))

FormatMessage(m, message) ==
  [timestamp |-> FormatTs(message.ts),
   username |-> ResolveUser(m, message.user),
   text |-> message.text,
   type |-> Or2(message.type, "message"),
   replies |-> << >>]

\* variant: any message that carries a thread_ts counts as a root
IsThreadRootAnyMember(message) ==
  message.thread_ts # NoTs

\* message.thread_ts && message.thread_ts === message.ts
IsThreadRoot(message) ==
  message.thread_ts # NoTs /\ message.thread_ts = message.ts

\* response.messages.slice(1)
Slice1(s) == IF Len(s) = 0 THEN << >> ELSE Tail(s)

\* (a, b) => new Date(a.timestamp) - new Date(b.timestamp)
Compare(a, b) == DateMs(a.timestamp) - DateMs(b.timestamp)

RECURSIVE InsertSorted(_, _)
\* x goes behind every element that does not compare greater (stable)
InsertSorted(sorted, x) ==
  IF sorted = << >> THEN <<x>>
  ELSE IF Compare(Head(sorted), x) > 0 THEN <<x>> \o sorted
       ELSE <<Head(sorted)>> \o InsertSorted(Tail(sorted), x)

RECURSIVE SortFrom(_, _)
SortFrom(sorted, rest) ==
  IF rest = << >> THEN sorted
  ELSE SortFrom(InsertSorted(sorted, Head(rest)), Tail(rest))

\* allMessages.sort(...): Array.prototype.sort is stable
SortMessages(messages) == SortFrom(<< >>, messages)

RECURSIVE ReplyLines(_)
ReplyLines(replies) ==
  IF replies = << >> THEN << >>
  ELSE << [kind |-> "reply", timestamp |-> Head(replies).timestamp,
           username |-> Head(replies).username, text |-> Head(replies).text] >>
       \o ReplyLines(Tail(replies))

RECURSIVE MessageLinesRepliesReversed(_)
\* variant: each reply is put in front of the replies already written
MessageLinesRepliesReversed(messages) ==
  IF messages = << >> THEN << >>
  ELSE << [kind |-> "message", timestamp |-> Head(messages).timestamp,
           username |-> Head(messages).username, text |-> Head(messages).text] >>
       \o ReplyLines([i \in 1..Len(Head(messages).replies) |->
                        Head(messages).replies[Len(Head(messages).replies) + 1 - i]])
       \o << [kind |-> "blank"] >>
       \o MessageLinesRepliesReversed(Tail(messages))

RECURSIVE MessageLines(_)
MessageLines(messages) ==
  IF messages = << >> THEN << >>
  ELSE << [kind |-> "message", timestamp |-> Head(messages).timestamp,
           username |-> Head(messages).username, text |-> Head(messages).text] >>
       \o ReplyLines(Head(messages).replies)
       \o << [kind |-> "blank"] >>
       \o MessageLines(Tail(messages))

\* the transcript, as its sequence of lines
formatConversationForAI(messages, channel) ==
  << [kind |-> "header", channel |-> channel], [kind |-> "blank"] >>
  \o MessageLines(messages)

\* ------------------------------------------------------------- histories
Range(s) == { s[i] : i \in 1..Len(s) }

RECURSIVE Flatten(_)
Flatten(pages) ==
  IF pages = << >> THEN << >> ELSE Head(pages) \o Flatten(Tail(pages))

NoDuplicates(s) == \A i, j \in 1..Len(s) : i # j => s[i] # s[j]

PagesOver(S) == UNION { [1..n -> S] : n \in 0..MaxPageLen }

\* every way the backend can split messages at or after `oldest` over pages;
\* page i carries a continuation cursor iff it is not the last page
Histories(oldest) ==
  LET S == { m \in HistoryUniverse : m.ts.sec >= oldest }
  IN { h \in UNION { [1..p -> PagesOver(S)] : p \in 1..MaxPages } :
         NoDuplicates(Flatten(h)) }

\* next_cursor of page i of a listing with n pages (0 is the empty cursor)
NextCursor(i, n) == IF i < n THEN i + 1 ELSE 0

\* the page a request with the given cursor asks for
PageIndex(c) == IF c = 0 THEN 1 ELSE c

\* ----------------------------------------------------------------- state
VARIABLES
  options,          \* program.opts() plus the OPENAI_API_KEY environment
  histPages,        \* backend: the pages conversations.history serves this run
  pc,               \* position of the script
  exitCode,         \* -1 while running, then the process exit status
  outcome,          \* "", "error", "no_messages" or "analysis"
  diag,             \* which diagnostic was printed to the error stream
  sinceTimestamp,   \* main: result of parseDateTime
  channelId,        \* main: result of resolveChannelId
  userMap,          \* getUserMap: userMap
  ucursor,          \* getUserMap: cursor
  allMessages,      \* fetchChannelMessages: allMessages
  cursor,           \* fetchChannelMessages: cursor
  response,         \* fetchChannelMessages: the history page being processed
  idx,              \* fetchChannelMessages: position of the for-of loop
  conversationData, \* main: the transcript handed to analyzeWithAI
  log,              \* every remote request issued, with its status
  stages            \* the stages main has started, in order

vars == <<options, histPages, pc, exitCode, outcome, diag, sinceTimestamp, channelId,
          userMap, ucursor, allMessages, cursor, response, idx, conversationData,
          log, stages>>

NoResponse == [messages |-> << >>, next_cursor |-> 0]

\* runs that get past argument validation query the backend with this bound
ReachesBackend(o) ==
  /\ StartsWith(o.token, BotPrefix)
  /\ ~(Falsy(o.key.opt) /\ Falsy(o.key.env))
  /\ parseDateTime(o.datetime).valid

Init ==
  /\ options \in [token : TokenInputs, key : KeyInputs,
                   datetime : DatetimeInputs, channel : ChannelInputs]
  /\ histPages \in IF ReachesBackend(options)
                    THEN Histories(parseDateTime(options.datetime).unix)
                    ELSE { << << >> >> }
  /\ pc = "boot"
  /\ exitCode = -1
  /\ outcome = ""
  /\ diag = ""
  /\ sinceTimestamp = 0
  /\ channelId = << >>
  /\ userMap = EmptyMap
  /\ ucursor = 0
  /\ allMessages = << >>
  /\ cursor = 0
  /\ response = NoResponse
  /\ idx = 0
  /\ conversationData = << >>
  /\ log = << >>
  /\ stages = << >>

\* ------------------------------------------------------------- log helpers
Request(op, arg) == [op |-> op, arg |-> arg, status |-> "pending"]

\* the outstanding request is answered
Answer(l, status) == [l EXCEPT ![Len(l)].status = status]

Pending == { i \in 1..Len(log) : log[i].status = "pending" }

Requests(op) == { i \in 1..Len(log) : log[i].op = op }

\* console.error + process.exit(1)
Exit1(d) ==
  /\ pc' = "exited"
  /\ exitCode' = 1
  /\ outcome' = "error"
  /\ diag' = d

Goto(p) ==
  /\ pc' = p
  /\ UNCHANGED <<exitCode, outcome, diag>>

\* ---------------------------------------------------------------- actions
\* module top level: the token format check
ValidateToken ==
  /\ pc = "boot"
  /\ IF ~StartsWith(options.token, BotPrefix)
     THEN Exit1("invalid_token")
     ELSE Goto("main")
  /\ UNCHANGED <<options, histPages, sinceTimestamp, channelId, userMap, ucursor,
                 allMessages, cursor, response, idx, conversationData, log, stages>>

\* variant: the isValid() check is missing
MainParseUnchecked ==
  /\ pc = "main"
  /\ IF Falsy(options.key.opt) /\ Falsy(options.key.env)
     THEN /\ Exit1("no_openai_key")
          /\ UNCHANGED <<sinceTimestamp, stages>>
     ELSE /\ stages' = Append(stages, "parse")
          /\ sinceTimestamp' = parseDateTime(options.datetime).unix
          /\ Goto("resolve")
  /\ UNCHANGED <<options, histPages, channelId, userMap, ucursor, allMessages, cursor,
                 response, idx, conversationData, log>>

\* main: the OpenAI key check and the datetime stage
MainParse ==
  /\ pc = "main"
  /\ IF Falsy(options.key.opt) /\ Falsy(options.key.env)
     THEN /\ Exit1("no_openai_key")
          /\ UNCHANGED <<sinceTimestamp, stages>>
     ELSE /\ stages' = Append(stages, "parse")
          /\ IF parseDateTime(options.datetime).valid
             THEN /\ sinceTimestamp' = parseDateTime(options.datetime).unix
                  /\ Goto("resolve")
             ELSE /\ Exit1("invalid_datetime")
                  /\ UNCHANGED sinceTimestamp
  /\ UNCHANGED <<options, histPages, channelId, userMap, ucursor, allMessages, cursor,
                 response, idx, conversationData, log>>

\* variant: the identifier shortcut is missing
ResolveChannelCallAlwaysLists ==
  /\ pc = "resolve"
  /\ stages' = Append(stages, "resolve")
  /\ log' = Append(log, Request("conversations.list", 0))
  /\ Goto("resolve_wait")
  /\ UNCHANGED <<options, histPages, sinceTimestamp, channelId, userMap, ucursor,
                 allMessages, cursor, response, idx, conversationData>>

\* resolveChannelId up to its await
ResolveChannelCall ==
  /\ pc = "resolve"
  /\ stages' = Append(stages, "resolve")
  /\ IF IsChannelId(options.channel)
     THEN /\ channelId' = options.channel
          /\ Goto("members")
          /\ UNCHANGED log
     ELSE /\ log' = Append(log, Request("conversations.list", 0))
          /\ Goto("resolve_wait")
          /\ UNCHANGED channelId
  /\ UNCHANGED <<options, histPages, sinceTimestamp, userMap, ucursor, allMessages,
                 cursor, response, idx, conversationData>>

\* conversations.list answered: only this one page is searched
ResolveChannelOk ==
  /\ pc = "resolve_wait"
  /\ log' = Answer(log, "ok")
  /\ LET channels == ChannelPages[1]
         hit == FindChannel(channels, StripHash(options.channel))
     IN IF hit = 0
        THEN /\ Exit1("resolve_failed_not_found")
             /\ UNCHANGED channelId
        ELSE /\ channelId' = channels[hit].id
             /\ Goto("members")
  /\ UNCHANGED <<options, histPages, sinceTimestamp, userMap, ucursor, allMessages,
                 cursor, response, idx, conversationData, stages>>

\* conversations.list rejected: wrapped and rethrown, main exits
ResolveChannelError ==
  /\ pc = "resolve_wait"
  /\ log' = Answer(log, "error")
  /\ Exit1("resolve_failed_transport")
  /\ UNCHANGED <<options, histPages, sinceTimestamp, channelId, userMap, ucursor,
                 allMessages, cursor, response, idx, conversationData, stages>>

\* getUserMap: one users.list request of the do-while loop
GetUserMapRequest ==
  /\ pc = "members"
  /\ stages' = IF Requests("users.list") = {} THEN Append(stages, "members") ELSE stages
  /\ log' = Append(log, Request("users.list", ucursor))
  /\ Goto("members_wait")
  /\ UNCHANGED <<options, histPages, sinceTimestamp, channelId, userMap, ucursor,
                 allMessages, cursor, response, idx, conversationData>>

GetUserMapOk ==
  /\ pc = "members_wait"
  /\ log' = Answer(log, "ok")
  /\ LET i == PageIndex(ucursor)
         next == NextCursor(i, Len(MemberPages))
     IN /\ userMap' = AddMembers(userMap, MemberPages[i])
        /\ ucursor' = next
        /\ IF next # 0 THEN Goto("members") ELSE Goto("history")
  /\ UNCHANGED <<options, histPages, sinceTimestamp, channelId, allMessages, cursor,
                 response, idx, conversationData, stages>>

\* variant: the failure propagates to main
GetUserMapErrorFatal ==
  /\ pc = "members_wait"
  /\ log' = Answer(log, "error")
  /\ Exit1("users_failed")
  /\ UNCHANGED <<options, histPages, sinceTimestamp, channelId, userMap, ucursor,
                 allMessages, cursor, response, idx, conversationData, stages>>

\* users.list rejected: a warning, the partial map is returned
GetUserMapError ==
  /\ pc = "members_wait"
  /\ log' = Answer(log, "error")
  /\ Goto("history")
  /\ UNCHANGED <<options, histPages, sinceTimestamp, channelId, userMap, ucursor,
                 allMessages, cursor, response, idx, conversationData, stages>>

\* fetchChannelMessages: one conversations.history request of the while loop
HistoryRequest ==
  /\ pc = "history"
  /\ stages' = IF Requests("conversations.history") = {}
               THEN Append(stages, "history") ELSE stages
  /\ log' = Append(log, Request("conversations.history", cursor))
  /\ Goto("history_wait")
  /\ UNCHANGED <<options, histPages, sinceTimestamp, channelId, userMap, ucursor,
                 allMessages, cursor, response, idx, conversationData>>

\* a history page arrives; an empty page breaks out of the loop
HistoryOk ==
  /\ pc = "history_wait"
  /\ log' = Answer(log, "ok")
  /\ LET i == PageIndex(cursor)
         messages == histPages[i]
     IN IF Len(messages) = 0
        THEN /\ allMessages' = SortMessages(allMessages)
             /\ Goto("fetched")
             /\ UNCHANGED <<response, idx>>
        ELSE /\ response' = [messages |-> messages,
                             next_cursor |-> NextCursor(i, Len(histPages))]
             /\ idx' = 1
             /\ Goto("process")
             /\ UNCHANGED allMessages
  /\ UNCHANGED <<options, histPages, sinceTimestamp, channelId, userMap, ucursor,
                 cursor, conversationData, stages>>

\* variant: the failure is swallowed and the partial list returned
HistoryErrorSwallowed ==
  /\ pc = "history_wait"
  /\ log' = Answer(log, "error")
  /\ allMessages' = SortMessages(allMessages)
  /\ Goto("fetched")
  /\ UNCHANGED <<options, histPages, sinceTimestamp, channelId, userMap, ucursor,
                 cursor, response, idx, conversationData, stages>>

\* a history request is rejected: wrapped and rethrown, main exits
HistoryError ==
  /\ pc = "history_wait"
  /\ log' = Answer(log, "error")
  /\ Exit1("fetch_failed")
  /\ UNCHANGED <<options, histPages, sinceTimestamp, channelId, userMap, ucursor,
                 allMessages, cursor, response, idx, conversationData, stages>>

\* the for-of body for a message that is not a thread root
ProcessPlainMessage ==
  /\ pc = "process"
  /\ idx <= Len(response.messages)
  /\ ~IsThreadRoot(response.messages[idx])
  /\ allMessages' = Append(allMessages, FormatMessage(userMap, response.messages[idx]))
  /\ idx' = idx + 1
  /\ Goto("process")
  /\ UNCHANGED <<options, histPages, sinceTimestamp, channelId, userMap, ucursor,
                 cursor, response, conversationData, log, stages>>

\* variant: the replies request is issued without being awaited
ProcessThreadRootNoAwait ==
  /\ pc = "process"
  /\ idx <= Len(response.messages)
  /\ IsThreadRoot(response.messages[idx])
  /\ log' = Append(log, Request("conversations.replies", response.messages[idx].ts))
  /\ allMessages' = Append(allMessages, FormatMessage(userMap, response.messages[idx]))
  /\ idx' = idx + 1
  /\ Goto("process")
  /\ UNCHANGED <<options, histPages, sinceTimestamp, channelId, userMap, ucursor,
                 cursor, response, conversationData, stages>>

\* the for-of body for a thread root, up to the await in getThreadReplies
ProcessThreadRoot ==
  /\ pc = "process"
  /\ idx <= Len(response.messages)
  /\ IsThreadRoot(response.messages[idx])
  /\ log' = Append(log, Request("conversations.replies", response.messages[idx].ts))
  /\ Goto("replies_wait")
  /\ UNCHANGED <<options, histPages, sinceTimestamp, channelId, userMap, ucursor,
                 allMessages, cursor, response, idx, conversationData, stages>>

\* the thread arrives: the echoed root is dropped, the rest mapped and pushed
RepliesOk ==
  /\ pc = "replies_wait"
  /\ log' = Answer(log, "ok")
  /\ LET message == response.messages[idx]
         replies == Slice1(ThreadOf(message.ts))
     IN allMessages' = Append(allMessages,
          [FormatMessage(userMap, message) EXCEPT !.replies = MapReplies(userMap, replies)])
  /\ idx' = idx + 1
  /\ Goto("process")
  /\ UNCHANGED <<options, histPages, sinceTimestamp, channelId, userMap, ucursor,
                 cursor, response, conversationData, stages>>

\* variant: the failure propagates out of fetchChannelMessages
RepliesErrorFatal ==
  /\ pc = "replies_wait"
  /\ log' = Answer(log, "error")
  /\ Exit1("fetch_failed")
  /\ UNCHANGED <<options, histPages, sinceTimestamp, channelId, userMap, ucursor,
                 allMessages, cursor, response, idx, conversationData, stages>>

\* the replies request is rejected: logged, the reply list is empty
RepliesError ==
  /\ pc = "replies_wait"
  /\ log' = Answer(log, "error")
  /\ LET message == response.messages[idx]
     IN allMessages' = Append(allMessages,
          [FormatMessage(userMap, message) EXCEPT !.replies = MapReplies(userMap, << >>)])
  /\ idx' = idx + 1
  /\ Goto("process")
  /\ UNCHANGED <<options, histPages, sinceTimestamp, channelId, userMap, ucursor,
                 cursor, response, conversationData, stages>>

\* after the last message of a page: follow the cursor, or sort and return
EndOfPage ==
  /\ pc = "process"
  /\ idx > Len(response.messages)
  /\ cursor' = response.next_cursor
  /\ IF response.next_cursor # 0
     THEN /\ Goto("history")
          /\ UNCHANGED allMessages
     ELSE /\ allMessages' = SortMessages(allMessages)
          /\ Goto("fetched")
  /\ UNCHANGED <<options, histPages, sinceTimestamp, channelId, userMap, ucursor,
                 response, idx, conversationData, log, stages>>

\* main: an empty result ends the run normally
NoMessages ==
  /\ pc = "fetched"
  /\ Len(allMessages) = 0
  /\ pc' = "exited"
  /\ exitCode' = 0
  /\ outcome' = "no_messages"
  /\ UNCHANGED <<options, histPages, diag, sinceTimestamp, channelId, userMap, ucursor,
                 allMessages, cursor, response, idx, conversationData, log, stages>>

\* variant: the empty-list check is missing
FormatAndAnalyzeUnguarded ==
  /\ pc = "fetched"
  /\ conversationData' = formatConversationForAI(allMessages, channelId)
  /\ stages' = stages \o <<"format", "analysis">>
  /\ log' = Append(log, Request("chat.completions", 0))
  /\ Goto("analysis_wait")
  /\ UNCHANGED <<options, histPages, sinceTimestamp, channelId, userMap, ucursor,
                 allMessages, cursor, response, idx>>

\* main: format the transcript and issue the completion request
FormatAndAnalyze ==
  /\ pc = "fetched"
  /\ Len(allMessages) # 0
  /\ conversationData' = formatConversationForAI(allMessages, channelId)
  /\ stages' = stages \o <<"format", "analysis">>
  /\ log' = Append(log, Request("chat.completions", 0))
  /\ Goto("analysis_wait")
  /\ UNCHANGED <<options, histPages, sinceTimestamp, channelId, userMap, ucursor,
                 allMessages, cursor, response, idx>>

\* the completion arrives and is printed
AnalyzeOk ==
  /\ pc = "analysis_wait"
  /\ log' = Answer(log, "ok")
  /\ pc' = "exited"
  /\ exitCode' = 0
  /\ outcome' = "analysis"
  /\ UNCHANGED <<options, histPages, diag, sinceTimestamp, channelId, userMap, ucursor,
                 allMessages, cursor, response, idx, conversationData, stages>>

\* variant: the failure is caught and not rethrown
AnalyzeErrorIgnored ==
  /\ pc = "analysis_wait"
  /\ log' = Answer(log, "error")
  /\ pc' = "exited"
  /\ exitCode' = 0
  /\ outcome' = "analysis"
  /\ UNCHANGED <<options, histPages, diag, sinceTimestamp, channelId, userMap, ucursor,
                 allMessages, cursor, response, idx, conversationData, stages>>

\* the completion request is rejected: wrapped and rethrown, main exits
AnalyzeError ==
  /\ pc = "analysis_wait"
  /\ log' = Answer(log, "error")
  /\ Exit1("analysis_failed")
  /\ UNCHANGED <<options, histPages, sinceTimestamp, channelId, userMap, ucursor,
                 allMessages, cursor, response, idx, conversationData, stages>>

Next ==
  \/ ValidateToken
  \/ MainParse
  \/ ResolveChannelCall
  \/ ResolveChannelOk
  \/ ResolveChannelError
  \/ GetUserMapRequest
  \/ GetUserMapOk
  \/ GetUserMapError
  \/ HistoryRequest
  \/ HistoryOk
  \/ HistoryError
  \/ ProcessPlainMessage
  \/ ProcessThreadRoot
  \/ RepliesOk
  \/ RepliesError
  \/ EndOfPage
  \/ NoMessages
  \/ FormatAndAnalyze
  \/ AnalyzeOk
  \/ AnalyzeError

Spec == Init /\ [][Next]_vars

\* the event loop runs every continuation that is ready, and every remote
\* request is eventually answered with a response or an error
FairSpec == Spec /\ WF_vars(Next)

\* ------------------------------------------------------ shared predicates
\* the raw record a formatted entry was built from (bodies are unique)
RecordOf(text) == CHOOSE m \in AllRecords : m.text = text

RecordAt(ts) == CHOOSE m \in AllRecords : m.ts = ts

Failed(op) == { i \in Requests(op) : log[i].status = "error" }

Succeeded(op) == { i \in Requests(op) : log[i].status = "ok" }

\* fetchChannelMessages has returned its list to main
FetchReturned ==
  \/ pc \in {"fetched", "analysis_wait"}
  \/ pc = "exited" /\ outcome \in {"no_messages", "analysis"}
  \/ pc = "exited" /\ diag = "analysis_failed"

Formatted == conversationData # << >>

TypeOK ==
  /\ pc \in {"boot", "main", "resolve", "resolve_wait", "members", "members_wait",
              "history", "history_wait", "process", "replies_wait", "fetched",
              "analysis_wait", "exited"}
  /\ exitCode \in {-1, 0, 1}

\* ------------------------------------------------------------------ C1
\* C1: when fetchChannelMessages returns, its list has one entry per message
\* of every page of the backend's history (length = sum of the page sizes),
\* whatever the page sizes are.
C1_OneEntryPerMessageOfEveryPage ==
  FetchReturned => Len(allMessages) = Len(Flatten(histPages))

\* ------------------------------------------------------------------ C2
\* C2: the list handed to the formatter is ascending in the backend
\* timestamps: an entry placed before another is never the later message.
C2_AscendingBackendTimestamps ==
  FetchReturned =>
    \A i, j \in 1..Len(allMessages) :
      i < j => ~TsLater(RecordOf(allMessages[i].text).ts, RecordOf(allMessages[j].text).ts)

\* ------------------------------------------------------------------ C3
\* C3: if any history page request fails, the run ends with exit status 1,
\* no transcript is formatted and the completion service is never called.
C3_HistoryFailureIsFatal ==
  Failed("conversations.history") # {} =>
    /\ pc = "exited"
    /\ exitCode = 1
    /\ ~Formatted
    /\ "format" \notin Range(stages)
    /\ Requests("chat.completions") = {}

\* a later page fails after an earlier page and a thread were fetched
C3_Witness ==
  /\ Failed("conversations.history") # {}
  /\ Succeeded("conversations.history") # {}
  /\ Succeeded("conversations.replies") # {}
  /\ Len(allMessages) > 0
  /\ exitCode = 1

\* ------------------------------------------------------------------ C4
\* C4: an empty fetch result is reported as "no messages" with exit status
\* 0, without a transcript and without a completion request; a completion
\* request is only ever issued for a non-empty list.
C4_EmptyResultSkipsAnalysis ==
  /\ (FetchReturned /\ Len(allMessages) = 0) =>
        /\ ~Formatted
        /\ Requests("chat.completions") = {}
        /\ pc \in {"fetched", "exited"}
        /\ pc = "exited" => (outcome = "no_messages" /\ exitCode = 0)
  /\ Requests("chat.completions") # {} => Len(allMessages) > 0

C4_Witness ==
  /\ pc = "exited"
  /\ outcome = "no_messages"
  /\ exitCode = 0
  /\ Succeeded("conversations.history") # {}
  /\ Len(allMessages) = 0

\* ------------------------------------------------------------------ C5
\* the number of messages on the first n history pages
RECURSIVE CountUpTo(_)
CountUpTo(n) == IF n = 0 THEN 0 ELSE Len(histPages[n]) + CountUpTo(n - 1)

\* C5: a failed reply request is not fatal: the root is kept with an empty
\* reply list, roots whose request succeeded keep their replies, paging goes
\* on to the remaining pages and the run reaches formatting and analysis.
C5_ReplyFailureIsNotFatal ==
  /\ \A i \in Requests("conversations.replies") :
        log[i].status # "pending" =>
          \E k \in 1..Len(allMessages) :
            /\ allMessages[k].text = RecordAt(log[i].arg).text
            /\ allMessages[k].replies =
                 IF log[i].status = "error" THEN << >>
                 ELSE MapReplies(userMap, Slice1(ThreadOf(log[i].arg)))
  /\ (Failed("conversations.replies") # {} /\ FetchReturned) =>
        LET n == Cardinality(Succeeded("conversations.history"))
        IN /\ n = Len(histPages) \/ histPages[n] = << >>
           /\ Len(allMessages) = CountUpTo(n)
  /\ (Failed("conversations.replies") # {} /\ pc = "exited") =>
        \/ Failed("conversations.history") # {} /\ diag = "fetch_failed"
        \/ /\ Formatted
           /\ Requests("chat.completions") # {}
           /\ diag \in {"", "analysis_failed"}

\* one thread failed, a later page was still fetched and another thread kept
\* its replies, and the analysis was printed
C5_Witness ==
  /\ pc = "exited"
  /\ outcome = "analysis"
  /\ Failed("conversations.replies") # {}
  /\ Succeeded("conversations.replies") # {}
  /\ \E i \in Failed("conversations.replies") :
       \E j \in Succeeded("conversations.history") : j > i
  /\ \E k \in 1..Len(allMessages) : Len(allMessages[k].replies) > 0

\* ------------------------------------------------------------------ C6
RECURSIVE MapOfPages(_)
\* the mapping built from the first n pages of the member listing
MapOfPages(n) ==
  IF n = 0 THEN EmptyMap ELSE AddMembers(MapOfPages(n - 1), MemberPages[n])

\* how an author is rendered given the mapping
Rendered(user) ==
  IF user \in DOMAIN userMap THEN userMap[user]
  ELSE IF user # "" THEN user ELSE "Unknown User"

\* C6: a failed member-listing request is not fatal: the mapping holds
\* exactly the pages fetched before it, the run goes on to the history fetch,
\* and authors missing from the mapping are rendered as their raw identifier,
\* or as "Unknown User" when the record has none.
C6_MemberListFailureIsNotFatal ==
  /\ userMap = MapOfPages(Cardinality(Succeeded("users.list")))
  /\ Failed("users.list") # {} =>
        /\ pc \notin {"members", "members_wait"}
        /\ pc = "exited" => "history" \in Range(stages)
        /\ exitCode = 1 => diag \in {"fetch_failed", "analysis_failed"}
  /\ \A k \in 1..Len(allMessages) :
        /\ allMessages[k].username = Rendered(RecordOf(allMessages[k].text).user)
        /\ \A r \in 1..Len(allMessages[k].replies) :
              allMessages[k].replies[r].username =
                Rendered(RecordOf(allMessages[k].replies[r].text).user)

\* the second member page failed; the run finished with one author resolved,
\* one shown by raw identifier and one shown as "Unknown User"
C6_Witness ==
  /\ pc = "exited"
  /\ outcome = "analysis"
  /\ Failed("users.list") # {}
  /\ DOMAIN userMap = {"U1"}
  /\ \E k \in 1..Len(allMessages) : allMessages[k].username = "Alice"
  /\ \E k \in 1..Len(allMessages) : allMessages[k].username = "Unknown User"
  /\ \E k \in 1..Len(allMessages) :
       \E r \in 1..Len(allMessages[k].replies) : allMessages[k].replies[r].username = "U2"

\* ------------------------------------------------------------------ C7
\* C7: an input that already has the identifier shape is returned unchanged
\* and no request is issued for it; the result has the identifier shape
\* again, so resolving it once more takes the same path.
C7_CanonicalIdResolvesLocally ==
  (IsChannelId(options.channel) /\ "resolve" \in Range(stages)) =>
    /\ channelId = options.channel
    /\ IsChannelId(channelId)
    /\ Requests("conversations.list") = {}

C7_Witness ==
  /\ IsChannelId(options.channel)
  /\ pc = "members"
  /\ channelId = options.channel
  /\ log = << >>

\* ------------------------------------------------------------------ C8
\* the channels of the whole listing with the given name
ListedWithName(name) ==
  { ch \in UNION { Range(ChannelPages[p]) : p \in 1..Len(ChannelPages) } : ch.name = name }

\* C8: a name input resolves to the identifier of the channel with that name
\* whenever one exists on any page of the listing, and fails with not-found
\* only when no page has it.
C8_NameFoundOnAnyPage ==
  (~IsChannelId(options.channel) /\ Succeeded("conversations.list") # {}) =>
    IF ListedWithName(StripHash(options.channel)) # {}
    THEN /\ diag # "resolve_failed_not_found"
         /\ \E ch \in ListedWithName(StripHash(options.channel)) : channelId = ch.id
    ELSE diag = "resolve_failed_not_found"

\* ------------------------------------------------------------------ C9
MalformedInput ==
  \/ ~StartsWith(options.token, BotPrefix)
  \/ ~parseDateTime(options.datetime).valid

\* C9: with a malformed token or start time the run never gets past argument
\* validation: no request is ever issued and it ends with exit status 1.
C9_MalformedInputRejectedOffline ==
  MalformedInput =>
    /\ log = << >>
    /\ pc \in {"boot", "main", "exited"}
    /\ pc = "exited" => exitCode = 1

\* a well-formed token and key, a malformed start time
C9_Witness ==
  /\ pc = "exited"
  /\ exitCode = 1
  /\ diag = "invalid_datetime"
  /\ StartsWith(options.token, BotPrefix)
  /\ log = << >>

\* ----------------------------------------------------------------- C10
StageOrder == <<"parse", "resolve", "members", "history", "format", "analysis">>

ChatOps == {"conversations.list", "users.list", "conversations.history",
            "conversations.replies"}

\* C10: at most one request is outstanding, and it is the latest one issued;
\* stages start in the fixed order; the completion request is issued at most
\* once, after every chat-backend request has been answered.
C10_StrictlySequential ==
  /\ Cardinality(Pending) <= 1
  /\ \A i \in Pending : i = Len(log)
  /\ Len(stages) <= Len(StageOrder)
  /\ stages = SubSeq(StageOrder, 1, Len(stages))
  /\ Cardinality(Requests("chat.completions")) <= 1
  /\ \A i \in Requests("chat.completions") :
        /\ i = Len(log)
        /\ \A j \in 1..(i - 1) : log[j].op \in ChatOps /\ log[j].status # "pending"

\* the completion request is outstanding after two pages and a thread
C10_Witness ==
  /\ pc = "analysis_wait"
  /\ Pending = {Len(log)}
  /\ Cardinality(Succeeded("conversations.history")) >= 2
  /\ Succeeded("conversations.replies") # {}
  /\ Succeeded("users.list") # {}
  /\ stages = StageOrder

\* ----------------------------------------------------------------- C11
\* the user-token prefix the README documents as accepted
UserPrefix == <<"x", "o", "x", "p", "-">>

DocumentedToken ==
  StartsWith(options.token, BotPrefix) \/ StartsWith(options.token, UserPrefix)

\* C11: the token check accepts every token starting with "xoxb-" or with
\* "xoxp-" (the run gets past the check into main), and rejects with the
\* "Invalid Slack token format" error only tokens with neither prefix.
C11_BotAndUserTokensAccepted ==
  pc # "boot" => (diag = "invalid_token" <=> ~DocumentedToken)

\* ----------------------------------------------------------------- C12
\* the body appears on a message line or a reply line of the transcript
InTranscript(text) ==
  \E i \in 1..Len(conversationData) :
    /\ conversationData[i].kind \in {"message", "reply"}
    /\ conversationData[i].text = text

AtOrAfterStart(m) == m.ts.sec >= sinceTimestamp

\* the threads that messages of the channel history belong to
ThreadsInHistory ==
  { m.thread_ts : m \in { x \in Range(Flatten(histPages)) : x.thread_ts # NoTs } }

\* the history is coherent: a thread member is never served without its
\* root when the root itself is at or after the start time
RootsServed ==
  \A m \in Range(Flatten(histPages)) :
    (m.thread_ts # NoTs /\ AtOrAfterStart(RecordAt(m.thread_ts)))
      => RecordAt(m.thread_ts) \in Range(Flatten(histPages))

\* every channel message and every thread reply at or after the start time
SinceStart ==
  Range(Flatten(histPages))
    \cup { r \in UNION { Range(Slice1(ThreadOf(t))) : t \in ThreadsInHistory } :
             AtOrAfterStart(r) }

\* C12: on a run where no request fails (and every history page was served),
\* the transcript contains every channel message and every thread reply at
\* or after the start time, also the replies of a thread whose root is older.
C12_TranscriptHasEverythingSinceStart ==
  ( /\ pc = "exited"
    /\ outcome = "analysis"
    /\ \A i \in 1..Len(log) : log[i].status = "ok"
    /\ Cardinality(Succeeded("conversations.history")) = Len(histPages)
    /\ RootsServed )
  => \A m \in SinceStart : InTranscript(m.text)

\* ----------------------------------------------------------------- C13
RECURSIVE LinePos(_)
\* where the line of the k-th message stands in the transcript: behind the
\* header (which ends in an empty line) and the blocks of the messages before
LinePos(k) ==
  IF k = 1 THEN 3 ELSE LinePos(k - 1) + Len(allMessages[k - 1].replies) + 2

LinesOfKind(kind) ==
  { i \in 1..Len(conversationData) : conversationData[i].kind = kind }

RECURSIVE TotalReplies(_)
TotalReplies(k) ==
  IF k = 0 THEN 0 ELSE Len(allMessages[k].replies) + TotalReplies(k - 1)

TranscriptLayout ==
  /\ conversationData[1] = [kind |-> "header", channel |-> channelId]
  /\ conversationData[2] = [kind |-> "blank"]
  /\ Len(conversationData) = LinePos(Len(allMessages) + 1) - 1
  /\ \A k \in 1..Len(allMessages) :
        LET msg == allMessages[k]
            at == LinePos(k)
        IN /\ conversationData[at] =
                [kind |-> "message", timestamp |-> msg.timestamp,
                 username |-> msg.username, text |-> msg.text]
           /\ \A r \in 1..Len(msg.replies) :
                 conversationData[at + r] =
                   [kind |-> "reply", timestamp |-> msg.replies[r].timestamp,
                    username |-> msg.replies[r].username, text |-> msg.replies[r].text]
           /\ conversationData[at + Len(msg.replies) + 1] = [kind |-> "blank"]
  /\ Cardinality(LinesOfKind("message")) = Len(allMessages)
  /\ Cardinality(LinesOfKind("reply")) = TotalReplies(Len(allMessages))

\* C13: the transcript is the header naming the channel, then for each
\* message in list order its line, one line per reply in reply order and a
\* blank line; there are as many message lines as messages and as many reply
\* lines as replies, and formatting leaves the message list unchanged.
C13_TranscriptLayout ==
  /\ [](Formatted => TranscriptLayout)
  /\ [][pc = "fetched" => allMessages' = allMessages]_vars

\* a transcript of two messages, one of them with two replies
C13_Witness ==
  /\ Formatted
  /\ Len(allMessages) >= 2
  /\ \E k \in 1..Len(allMessages) : Len(allMessages[k].replies) = 2
  /\ Cardinality(LinesOfKind("reply")) >= 2

\* ----------------------------------------------------------------- C14
\* the messages of the history pages the backend has returned so far
ServedMessages ==
  UNION { Range(histPages[p]) : p \in 1..Cardinality(Succeeded("conversations.history")) }

\* the served messages whose thread-root timestamp is present and their own
ServedRoots ==
  { m \in ServedMessages : m.thread_ts # NoTs /\ m.thread_ts = m.ts }

\* C14: a reply request is only ever issued for a served message whose
\* thread-root timestamp is present and equals its own timestamp; no root is
\* asked twice, so there are at most as many reply requests as served roots,
\* and once the fetch has returned exactly one per served root.
C14_ReplyRequestsOnlyForRoots ==
  /\ \A i \in Requests("conversations.replies") :
        \E m \in ServedRoots : m.ts = log[i].arg
  /\ \A i, j \in Requests("conversations.replies") :
        log[i].arg = log[j].arg => i = j
  /\ Cardinality(Requests("conversations.replies")) <= Cardinality(ServedRoots)
  /\ FetchReturned =>
        \A m \in ServedRoots :
          Cardinality({ i \in Requests("conversations.replies") : log[i].arg = m.ts }) = 1

\* a thread member that is not a root, a message outside any thread and a
\* root were all processed, with a single reply request
C14_Witness ==
  /\ FetchReturned
  /\ M4 \in ServedMessages
  /\ M2 \in ServedMessages
  /\ Cardinality(ServedRoots) = 1
  /\ Cardinality(Requests("conversations.replies")) = 1
  /\ Len(allMessages) = 3

\* ----------------------------------------------------------------- C15
\* where a record stands in the result: <<k, 0>> as the k-th top-level
\* entry, <<k, r>> as the r-th reply of the k-th entry
Occurrences(text) ==
  { <<k, 0>> : k \in { x \in 1..Len(allMessages) : allMessages[x].text = text } }
    \cup UNION { { <<k, r>> : r \in { y \in 1..Len(allMessages[k].replies) :
                                        allMessages[k].replies[y].text = text } } :
                 k \in 1..Len(allMessages) }

\* C15: every backend record appears at most once in the result, counting
\* top-level entries and reply entries together, and no entry is listed
\* among its own replies.
C15_NoRecordListedTwice ==
  /\ \A m \in AllRecords : Cardinality(Occurrences(m.text)) <= 1
  /\ \A k \in 1..Len(allMessages) :
        \A r \in 1..Len(allMessages[k].replies) :
          allMessages[k].replies[r].text # allMessages[k].text

\* ----------------------------------------------------------------- C16
ParseFailed ==
  "parse" \in Range(stages) /\ ~parseDateTime(options.datetime).valid

ResolveFailed ==
  \/ Failed("conversations.list") # {}
  \/ /\ Succeeded("conversations.list") # {}
     /\ \A ch \in Range(ChannelPages[1]) : ch.name # StripHash(options.channel)

\* one of the fatal stages (time parsing, channel resolution, history
\* paging, analysis) failed
FatalStageFailed ==
  \/ ParseFailed
  \/ ResolveFailed
  \/ Failed("conversations.history") # {}
  \/ Failed("chat.completions") # {}

\* the token has the accepted shape and an OpenAI key was supplied
ArgumentsAccepted ==
  /\ StartsWith(options.token, BotPrefix)
  /\ ~(Falsy(options.key.opt) /\ Falsy(options.key.env))

\* both pagination loops ask for each page of their listing at most once
FinitelyManyRequests ==
  /\ Cardinality(Requests("users.list")) <= Len(MemberPages)
  /\ Cardinality(Requests("conversations.history")) <= Len(histPages)
  /\ \A i, j \in Requests("users.list") : log[i].arg = log[j].arg => i = j
  /\ \A i, j \in Requests("conversations.history") : log[i].arg = log[j].arg => i = j

\* C16 (as stated): a run that entered main and finished has exit status 0
\* exactly when none of the fatal stages failed.
C16_ExitZeroIffNoFatalStageFailed ==
  (pc = "exited" /\ StartsWith(options.token, BotPrefix)) =>
    (exitCode = 0 <=> ~FatalStageFailed)

\* C16 (amended): every run eventually reaches a terminal outcome, the two
\* pagination loops issue finitely many requests, and the exit status is 0
\* exactly when the arguments were accepted (token shape, OpenAI key) and
\* none of the fatal stages failed.
C16_TerminatesWithExitStatus ==
  /\ <>(pc = "exited")
  /\ []FinitelyManyRequests
  /\ [](pc = "exited" =>
          /\ outcome \in {"analysis", "no_messages", "error"}
          /\ exitCode = 0 <=> (ArgumentsAccepted /\ ~FatalStageFailed))

\* a run that paged through both listings and printed the analysis
C16_Witness ==
  /\ pc = "exited"
  /\ exitCode = 0
  /\ outcome = "analysis"
  /\ Cardinality(Succeeded("users.list")) = Len(MemberPages)
  /\ Cardinality(Succeeded("conversations.history")) >= 2

====
